---- MODULE Spec2Model ----
(***************************************************************************)
(* Model of the Firebase main/backup synchronisation engine:               *)
(* EnhancedSyncService (enhancedSyncService.js) on top of SyncService      *)
(* (syncService.js) and AuthSyncService (authSyncService.js), driven by    *)
(* the HTTP routes and timers of the server.                               *)
(*                                                                         *)
(* Timestamps are naturals; 0 stands for null / undefined / a missing      *)
(* field, which is what the code's truthiness tests (a || b, if (a))       *)
(* distinguish.  A database is a partial function from <<collection, id>>  *)
(* to the document data; a document exists iff its slot is in the domain.  *)
(***************************************************************************)
EXTENDS Integers, Sequences, FiniteSets, TLC

VARIABLES
  mainDb,              \* primary Firestore: slot -> data
  backupDb,            \* standby Firestore: slot -> data
  backupUsers,         \* uids present in the standby auth directory
  isMainDbOnline, isBackupDbOnline, isMainAuthOnline, isBackupAuthOnline,
  isSyncing,           \* the run lock
  syncStats,           \* this.syncStats
  authSyncStats,       \* authSyncService.authSyncStats
  authSyncAliased,     \* syncStats.authSync is the authSyncStats object itself
  collections,         \* this.collections
  syncMetadata,        \* this.syncMetadata: key -> watermark (0 = no entry)
  statsFile,           \* logs/sync-stats.json: <<>> or <<saved syncStats>>
  started,             \* startServer() has run: routes and cron are live
  pc,                  \* per caller: where its run is suspended
  todo,                \* per caller: collections its loop has still to visit
  acc,                 \* per caller: the local totalSynced / totalRecovered
  first,               \* per caller: the local isFirstSync
  now,                 \* the wall clock
  runs, faults, writes,\* budgets of the environment
  refused,             \* history: a call found the lock taken by the run in progress
  runStart,            \* history: what the latest run found when it began
  res,                 \* the body of the latest response to POST /api/sync, /sync/full, /recover
  batchLog,            \* the write loop alone: its input, then what it did
  probe,               \* the probe rounds in progress and the latest completed one
  collectionsSchema,   \* this.collectionsSchema: collection -> keys of its sample
  io,                  \* the socket channel: what the latest publishing step emitted,
                       \* and what the latest forward run has emitted so far
  authPass             \* per caller of performFullAuthSync: where its pass is suspended

vars == <<mainDb, backupDb, backupUsers, isMainDbOnline, isBackupDbOnline,
          isMainAuthOnline, isBackupAuthOnline, isSyncing, syncStats,
          authSyncStats, authSyncAliased, collections, syncMetadata, statsFile,
          started, pc, todo, acc, first, now, runs, faults, writes, refused,
          runStart, res, batchLog, probe,
          collectionsSchema, io, authPass>>

-----------------------------------------------------------------------------
(* Bounds of the environment *)

MaxTime == 2
MaxRuns == 2
MaxFaults == 1
MaxWrites == 2
MaxCreated == 1
MaxBelow == 20
MaxOver == 2

(* Program constants *)

BatchLimit == 450
ReportEvery == 10
ImportLimit == 1000

knownCollections ==
  <<"appointments", "availability", "chats", "notifications", "specialities", "users">>

-----------------------------------------------------------------------------
(* The environment's data *)

Callers == {"cron", "http"}

\* Document ids, in the order a query returns them.
IdOrder == <<"d1", "d2">>

\* The ids of the documents an import job creates at once, one write loop's
\* limit and more
BulkDocs == BatchLimit + MaxOver

BulkIds == [i \in 1..BulkDocs |-> "b" \o ToString(i)]

BulkSlots == {<<"users", BulkIds[i]>> : i \in 1..BulkDocs}

\* The places where the environment puts documents: two in a known
\* collection, one in a collection the code only learns by discovery.
Slots == {<<"users", "d1">>, <<"users", "d2">>, <<"users_recovery", "d1">>}

\* Collections of the primary in the order listCollections returns them.
ListOrder == <<"users", "users_recovery">>

DocValues ==
  {d \in [updatedAt : 0..MaxTime, createdAt : 0..MaxCreated] :
     d.updatedAt = 0 \/ d.createdAt = 0}

MainUsers == {"uid1", "uid2"}
ClaimUsers == {"uid1"}

Range(s) == {s[i] : i \in DOMAIN s}

\* the ids of a collection in the order its queries return them
QueryOrder(db, collectionName) ==
  IF <<collectionName, BulkIds[1]>> \in DOMAIN db THEN IdOrder \o BulkIds ELSE IdOrder

AllCollections == Range(knownCollections) \cup Range(ListOrder)

recoveryKey(collectionName) == collectionName \o "_recovery"

MetaKeys == AllCollections \cup {recoveryKey(c) : c \in AllCollections}

NoMetadata == [k \in MetaKeys |-> 0]

-----------------------------------------------------------------------------
(* Pure parts of the code *)

\* a || b on timestamps
Or(a, b) == IF a # 0 THEN a ELSE b

NoData == [updatedAt |-> 0, createdAt |-> 0]

\* set(docRef, data, { merge: true }): fields of data replace, others stay
Merge(old, data) ==
  [updatedAt |-> Or(data.updatedAt, old.updatedAt),
   createdAt |-> Or(data.createdAt, old.createdAt)]

\* a query that drops its filter
QueryMatchesAll(data, lastSyncTime) == TRUE

\* where('updatedAt', '>', lastSyncTime): a document without the field never matches
QueryMatches(data, lastSyncTime) ==
  lastSyncTime # 0 => (data.updatedAt # 0 /\ data.updatedAt > lastSyncTime)

getIncrementalDocuments(db, collectionName, lastSyncTime, t) ==
  LET Hit(id) == /\ <<collectionName, id>> \in DOMAIN db
                 /\ QueryMatches(db[<<collectionName, id>>], lastSyncTime)
      ids == SelectSeq(QueryOrder(db, collectionName), Hit)
  IN [i \in 1..Len(ids) |->
        LET data == db[<<collectionName, ids[i]>>]
        IN [id |-> ids[i], data |-> data,
            updatedAt |-> Or(Or(data.updatedAt, data.createdAt), t)]]

\* a duplicate test that looks at the id alone
IsDuplicateById(targetDb, collectionName, doc) ==
  <<collectionName, doc.id>> \in DOMAIN targetDb

\* the test of checkForDuplicates that puts a document in existingDocs
IsDuplicate(targetDb, collectionName, doc) ==
  /\ <<collectionName, doc.id>> \in DOMAIN targetDb
  /\ LET existingData == targetDb[<<collectionName, doc.id>>]
         existingTimestamp == Or(existingData.updatedAt, existingData.createdAt)
         newTimestamp == Or(doc.data.updatedAt, doc.data.createdAt)
     IN existingTimestamp # 0 /\ newTimestamp # 0 /\ existingTimestamp >= newTimestamp

\* getAllFails: targetDb.getAll throws, the catch returns the documents as they came
checkForDuplicates(targetDb, collectionName, documents, getAllFails) ==
  IF getAllFails
  THEN [docs |-> documents, skipped |-> 0]
  ELSE LET Keep(doc) == ~IsDuplicate(targetDb, collectionName, doc)
           filteredDocs == SelectSeq(documents, Keep)
       IN [docs |-> filteredDocs, skipped |-> Len(documents) - Len(filteredDocs)]

\* one turn of the for loop over the documents to write; failAt = k makes the
\* k-th batch.commit() throw (0: none does).  The loop keeps the one batch it
\* was given: once commit() has been called on it the batch is committed, and
\* batch.set on a committed WriteBatch throws into the catch of the loop.
BatchTurn(doc, st, failAt) ==
  IF st.sealed
  THEN [st EXCEPT !.errors = @ + 1]
  ELSE
    LET added == [st EXCEPT
                    !.pending = Append(@, doc),
                    !.batchCount = @ + 1,
                    !.latestTimestamp =
                       IF doc.updatedAt # 0 /\ (@ = 0 \/ doc.updatedAt > @)
                       THEN doc.updatedAt ELSE @]
    IN IF added.batchCount >= BatchLimit
       THEN IF added.commits + 1 = failAt
            THEN [added EXCEPT !.commits = @ + 1, !.errors = @ + 1, !.sealed = TRUE]
            ELSE [added EXCEPT !.commits = @ + 1,
                               !.committed = @ \o added.pending,
                               !.total = @ + added.batchCount,
                               !.pending = << >>,
                               !.batchCount = 0,
                               !.sealed = TRUE]
       ELSE added

\* the turns for docs[lo..hi] in order, halving the range (the test on half
\* has the first half evaluated before the second begins)
RECURSIVE BatchTurns(_, _, _, _, _)
BatchTurns(docs, lo, hi, st, failAt) ==
  IF lo > hi THEN st
  ELSE IF lo = hi THEN BatchTurn(docs[lo], st, failAt)
  ELSE LET mid == (lo + hi) \div 2
           half == BatchTurns(docs, lo, mid, st, failAt)
       IN IF half.errors >= 0 THEN BatchTurns(docs, mid + 1, hi, half, failAt) ELSE half

\* the for loop from its i-th document on
BatchLoop(docs, i, st, failAt) == BatchTurns(docs, i, Len(docs), st, failAt)

\* the loop and the commit of what remains, on documents that all pass the
\* duplicate check: the commits asked for, the count returned, the documents
\* that reached the target, the errors counted, and whether the call threw
BatchWrite(docs, failAt) ==
  LET start == [pending |-> << >>, batchCount |-> 0, latestTimestamp |-> 0, commits |-> 0,
                committed |-> << >>, total |-> 0, errors |-> 0, sealed |-> FALSE]
      loop == BatchLoop(docs, 1, start, failAt)
      final == loop.batchCount > 0
      finalFails == final /\ loop.commits + 1 = failAt
      kept == final /\ ~finalFails
  IN [commits |-> loop.commits + (IF final THEN 1 ELSE 0),
      total |-> loop.total + (IF kept THEN loop.batchCount ELSE 0),
      written |-> Len(loop.committed) + (IF kept THEN Len(loop.pending) ELSE 0),
      errors |-> loop.errors,
      threw |-> finalFails]

ApplyWrites(db, collectionName, docs) ==
  LET written == {<<collectionName, d.id>> : d \in docs}
      DataOf(s) == (CHOOSE d \in docs : d.id = s[2]).data
  IN [s \in DOMAIN db \cup written |->
        IF s \in written
        THEN Merge(IF s \in DOMAIN db THEN db[s] ELSE NoData, DataOf(s))
        ELSE db[s]]

Faults == {"none", "query", "getAll", "commit", "verify"}

\* The body shared by syncCollectionToBackup and syncCollectionToMain: what one
\* call does to the target database and to syncMetadata[key], what it adds to
\* duplicatesSkipped and errors, and whether it returns a count or throws.
syncCollection(sourceDb, targetDb, collectionName, key, incrementalOnly, fault, verifies) ==
  LET meta == syncMetadata
      lastSyncTime == IF incrementalOnly THEN meta[key] ELSE 0
      documents == getIncrementalDocuments(sourceDb, collectionName, lastSyncTime, now)
      dup == checkForDuplicates(targetDb, collectionName, documents, fault = "getAll")
      start == [pending |-> << >>, batchCount |-> 0, latestTimestamp |-> lastSyncTime,
                commits |-> 0, committed |-> << >>, total |-> 0, errors |-> 0,
                sealed |-> FALSE]
      loop == BatchLoop(dup.docs, 1, start, IF fault = "commit" THEN 1 ELSE 0)
      unchanged == [threw |-> FALSE, count |-> 0, target |-> targetDb, meta |-> meta,
                    dup |-> 0, errs |-> 0, faulted |-> FALSE, progress |-> 0]
  IN IF fault = "query"
     THEN [unchanged EXCEPT !.threw = TRUE, !.faulted = TRUE]
     ELSE IF Len(documents) = 0
     THEN unchanged
     ELSE IF Len(dup.docs) = 0
     THEN [unchanged EXCEPT !.dup = dup.skipped, !.faulted = (fault = "getAll")]
     ELSE IF loop.batchCount > 0 /\ fault = "commit" /\ loop.commits = 0
     THEN \* the final commit throws: nothing after it runs
          [unchanged EXCEPT !.threw = TRUE, !.faulted = TRUE,
                            !.target = ApplyWrites(targetDb, collectionName, Range(loop.committed)),
                            !.dup = dup.skipped, !.errs = loop.errors,
                            !.progress = loop.total \div BatchLimit]
     ELSE LET committed == Range(loop.committed \o loop.pending)
              total == loop.total + loop.batchCount
          IN [threw |-> (verifies /\ fault = "verify"),
              count |-> total,
              target |-> ApplyWrites(targetDb, collectionName, committed),
              meta |-> [meta EXCEPT ![key] = loop.latestTimestamp],
              dup |-> dup.skipped,
              errs |-> loop.errors,
              faulted |-> (fault \in {"getAll", "commit"} \/ (verifies /\ fault = "verify")),
              progress |-> loop.total \div BatchLimit]

syncCollectionToBackup(collectionName, incrementalOnly, fault) ==
  syncCollection(mainDb, backupDb, collectionName, collectionName, incrementalOnly,
                 fault, TRUE)

syncCollectionToMain(collectionName, incrementalOnly, fault) ==
  syncCollection(backupDb, mainDb, collectionName, recoveryKey(collectionName),
                 incrementalOnly, fault, FALSE)

-----------------------------------------------------------------------------
(* State after construction *)

NoAuthStats ==
  [totalUsers |-> 0, syncedUsers |-> 0, errors |-> 0, lastSync |-> 0, customClaims |-> 0]

InitialStats ==
  [totalSynced |-> 0, lastSync |-> 0, errors |-> 0, collections |-> <<>>,
   status |-> "idle", duplicatesSkipped |-> 0, incrementalSyncs |-> 0,
   lastFullSync |-> 0, authSync |-> NoAuthStats]

NoRun == [kind |-> "none"]

\* no response sent yet
NoReply == [success |-> FALSE, message |-> ""]

\* what the routes answer once the call they await has returned
Reply(kind) ==
  [success |-> TRUE,
   message |-> CASE kind = "sync" -> "Enhanced sync initiated (Firestore + Auth)"
                 [] kind = "force" -> "Full sync initiated (Firestore + Auth)"
                 [] OTHER -> "Enhanced recovery initiated (Firestore + Auth)"]

\* the response of the route that p stands for; the cron job sends none
Respond(p, kind) == res' = IF p = "http" THEN Reply(kind) ELSE res

\* nothing given to the write loop
NoLog ==
  [docs |-> 0, failAt |-> 0, done |-> FALSE, commits |-> 0, total |-> 0, written |-> 0,
   errors |-> 0, threw |-> FALSE]

\* who calls checkDatabaseHealth outside a run: the 10 s timer of init(), and
\* the socket and HTTP handlers that answer a health request
Probers == {"timer", "socket"}

\* no probe round begun, none completed
NoProbe ==
  [at |-> [r \in Probers |-> 0], seen |-> [r \in Probers |-> << >>], last |-> << >>]

\* the field names a document can carry
FieldNames == {"updatedAt", "createdAt"}

\* nothing analysed yet
NoSchema == [c \in AllCollections |-> {}]

\* nothing published yet
NoIo == [sent |-> << >>, reported |-> FALSE, run |-> << >>]

\* the requests that can be in performFullAuthSync at the same time
AuthCallers == {"a1", "a2"}

\* what listUsers of the main directory can return: uid2 signs up, or is
\* deleted, at any time
Exports == {<<"uid1">>, <<"uid1", "uid2">>}

\* a pass not begun: its locals users, syncedCount and claimsSynced, and of its
\* import the users of the chunks that threw and the sum of result.failureCount
IdlePass ==
  [at |-> "idle", users |-> << >>, syncedCount |-> 0, claimsSynced |-> 0,
   thrown |-> 0, failureCount |-> 0, threw |-> FALSE]

NoPass == [q \in AuthCallers |-> IdlePass]

Snapshot(kind) ==
  [kind |-> kind, stats |-> syncStats, meta |-> syncMetadata,
   main |-> mainDb, backup |-> backupDb, users |-> backupUsers]

Constructed ==
  /\ mainDb = << >>
  /\ backupDb = << >>
  /\ backupUsers = {}
  /\ isMainDbOnline = FALSE
  /\ isBackupDbOnline = FALSE
  /\ isMainAuthOnline = FALSE
  /\ isBackupAuthOnline = FALSE
  /\ isSyncing = FALSE
  /\ syncStats = InitialStats
  /\ authSyncStats = NoAuthStats
  /\ authSyncAliased = FALSE
  /\ collections = << >>
  /\ syncMetadata = NoMetadata
  /\ statsFile = << >>
  /\ started = FALSE
  /\ pc = [p \in Callers |-> "idle"]
  /\ todo = [p \in Callers |-> << >>]
  /\ acc = [p \in Callers |-> 0]
  /\ first = [p \in Callers |-> FALSE]
  /\ now = 1
  /\ runs = 0
  /\ faults = 0
  /\ writes = 0
  /\ refused = FALSE
  /\ runStart = NoRun
  /\ res = NoReply
  /\ probe = NoProbe
  /\ collectionsSchema = NoSchema
  /\ io = NoIo
  /\ authPass = NoPass

Init == Constructed /\ batchLog = NoLog

-----------------------------------------------------------------------------
(* The environment *)

dbVars == <<mainDb, backupDb>>
healthVars == <<isMainDbOnline, isBackupDbOnline, isMainAuthOnline, isBackupAuthOnline>>
authVars == <<backupUsers, authSyncStats, authSyncAliased>>
localVars == <<pc, todo, acc, first, refused>>
envVars == <<now, runs, faults, writes>>
sideVars == <<collectionsSchema, io, authPass>>

Tick ==
  /\ now < MaxTime
  /\ now' = now + 1
  /\ UNCHANGED <<dbVars, healthVars, authVars, localVars, isSyncing, syncStats,
                 collections, syncMetadata, statsFile, started, batchLog, probe, sideVars,
                 runs, faults, writes,
                 runStart, res>>

\* an application client creates or replaces a document on the primary
PrimaryWrite ==
  /\ writes < MaxWrites
  /\ \E s \in Slots, d \in DocValues :
        mainDb' = [x \in DOMAIN mainDb \cup {s} |-> IF x = s THEN d ELSE mainDb[x]]
  /\ writes' = writes + 1
  /\ UNCHANGED <<backupDb, healthVars, authVars, localVars, isSyncing, syncStats,
                 collections, syncMetadata, statsFile, started, batchLog, probe, sideVars, now,
                 runs, faults,
                 runStart, res>>

\* an import job creates the bulk documents on the primary, stamped now
BulkWrite ==
  /\ writes < MaxWrites
  /\ mainDb' = [x \in DOMAIN mainDb \cup BulkSlots |->
                  IF x \in BulkSlots THEN [updatedAt |-> now, createdAt |-> 0] ELSE mainDb[x]]
  /\ writes' = writes + 1
  /\ UNCHANGED <<backupDb, healthVars, authVars, localVars, isSyncing, syncStats,
                 collections, syncMetadata, statsFile, started, batchLog, probe, sideVars, now,
                 runs, faults,
                 runStart, res>>

\* a client that failed over to the backup project writes there
StandbyWrite ==
  /\ writes < MaxWrites
  /\ \E s \in Slots, d \in DocValues :
        backupDb' = [x \in DOMAIN backupDb \cup {s} |-> IF x = s THEN d ELSE backupDb[x]]
  /\ writes' = writes + 1
  /\ UNCHANGED <<mainDb, healthVars, authVars, localVars, isSyncing, syncStats,
                 collections, syncMetadata, statsFile, started, batchLog, probe, sideVars, now,
                 runs, faults,
                 runStart, res>>

-----------------------------------------------------------------------------
(* Helpers of the service *)

saveStats(stats) == statsFile' = <<stats>>

\* listCollections of the primary, then the known names that are missing
Discovered ==
  LET Listed(c) == \E s \in DOMAIN mainDb : s[1] = c
      newCollections == SelectSeq(ListOrder, Listed)
      Missing(c) == c \notin Range(newCollections)
  IN newCollections \o SelectSeq(knownCollections, Missing)

\* an event of the channel: its name, and the status or the collection it is about
Event(name, about) == [event |-> name, about |-> about]

\* io.emit of the events of a step: by the step that begins a forward run
\* (owner "start"), by a later step of that run ("run"), or by a timer, a
\* route or a recovery ("other")
emit(events, owner) ==
  io' = [io EXCEPT !.sent = IF events = << >> THEN @ ELSE events,
                   !.run = CASE owner = "start" -> events
                             [] owner = "run" -> @ \o events
                             [] OTHER -> @]

\* emitStats() as the last thing a step publishes, after the events before
emitStats(before, status, owner) ==
  emit(before \o <<Event("syncStats", status)>>, owner)

\* extractKeysFromObject over the sample of analyzeCollectionSchema: limit(5)
\* takes every document of a collection this small
analyzeCollectionSchema(collectionName) ==
  {f \in FieldNames :
     \E s \in DOMAIN mainDb : s[1] = collectionName /\ mainDb[s][f] # 0}

\* discoverCollections: on a failure of listCollections the catch leaves
\* this.collections as it was
discoverCollections(stats, fails, owner) ==
  IF fails
  THEN /\ collections' = collections
       /\ syncStats' = stats
       /\ UNCHANGED <<collectionsSchema, io>>
  ELSE /\ collections' = Discovered
       /\ collectionsSchema' =
             [c \in AllCollections |->
                IF c \in Range(Discovered) THEN analyzeCollectionSchema(c)
                ELSE collectionsSchema[c]]
       /\ syncStats' = [stats EXCEPT !.collections = Discovered]
       /\ emitStats(<< >>, stats.status, owner)

\* checkDatabaseHealth run with no other round in between: the four probes
\* answer what the endpoints are at that time
checkDatabaseHealth ==
  \E m, b, ma, ba \in BOOLEAN :
     /\ isMainDbOnline' = m
     /\ isBackupDbOnline' = b
     /\ isMainAuthOnline' = ma
     /\ isBackupAuthOnline' = ba
     /\ probe' = [probe EXCEPT !.last = <<m, b, ma, ba>>]

\* a finally block that leaves the lock as it is
ReleaseKeepsLock(p) ==
  /\ isSyncing' = isSyncing
  /\ pc' = [pc EXCEPT ![p] = "idle"]
  /\ refused' = FALSE
  /\ runStart' = NoRun
  /\ Respond(p, runStart.kind)

\* the finally block of a run
Release(p) ==
  /\ isSyncing' = FALSE
  /\ pc' = [pc EXCEPT ![p] = "idle"]
  /\ refused' = FALSE
  /\ runStart' = NoRun
  /\ Respond(p, runStart.kind)

-----------------------------------------------------------------------------
(* Timers and routes that take no lock *)

\* startServer: testConnections, then discoverCollections, then listen and cron
StartServer ==
  /\ ~started
  /\ started' = TRUE
  /\ \E fails \in BOOLEAN :
        /\ fails => faults < MaxFaults
        /\ faults' = IF fails THEN faults + 1 ELSE faults
        /\ discoverCollections(syncStats, fails, "other")
  /\ UNCHANGED <<dbVars, healthVars, authVars, localVars, isSyncing, syncMetadata,
                 statsFile, now, runs, writes, runStart, res, batchLog, probe, authPass>>

\* the 10 s timer of init(), GET /api/health, the socket's requestHealthCheck
HealthTimer ==
  /\ checkDatabaseHealth
  /\ UNCHANGED <<dbVars, authVars, localVars, envVars, isSyncing, syncStats,
                 collections, syncMetadata, statsFile, started, batchLog, sideVars, runStart,
                 res>>

\* the 5 min cron and GET /api/collections
DiscoverTimer ==
  /\ started
  /\ \E fails \in BOOLEAN :
        /\ fails => faults < MaxFaults
        /\ faults' = IF fails THEN faults + 1 ELSE faults
        /\ discoverCollections(syncStats, fails, "other")
  /\ UNCHANGED <<dbVars, healthVars, authVars, localVars, isSyncing, syncMetadata,
                 statsFile, started, batchLog, probe, authPass, now, runs, writes, runStart, res>>

\* POST /api/reset-stats
ResetStats ==
  /\ started
  /\ syncStats' = InitialStats
  /\ authSyncAliased' = FALSE
  /\ saveStats(InitialStats)
  /\ UNCHANGED <<dbVars, healthVars, backupUsers, authSyncStats, localVars, envVars,
                 isSyncing, collections, syncMetadata, started, batchLog, probe, sideVars,
                 runStart, res>>

-----------------------------------------------------------------------------
(* The forward run: EnhancedSyncService.performFullSync *)

\* a lock that is never seen taken
SyncInProgressNever == FALSE

\* the test that refuses a call while a run holds the lock
SyncInProgress == isSyncing

\* performFullSync up to its first await, entered with the stats the caller left
EnterFullSync(p, stats, kind) ==
  IF SyncInProgress
  THEN /\ syncStats' = stats
       /\ refused' = TRUE
       /\ Respond(p, kind)
       /\ UNCHANGED <<isSyncing, pc, runs, runStart, io>>
  ELSE /\ runs < MaxRuns
       /\ runs' = runs + 1
       /\ isSyncing' = TRUE
       /\ syncStats' = [stats EXCEPT !.status = "syncing", !.lastSync = now]
       /\ pc' = [pc EXCEPT ![p] = "health"]
       /\ refused' = FALSE
       /\ runStart' = Snapshot(kind)
       /\ res' = res
       /\ emitStats(<< >>, "syncing", "start")

\* POST /api/sync and the 10 min cron
PerformFullSync(p) ==
  /\ started
  /\ pc[p] = "idle"
  /\ EnterFullSync(p, syncStats, "sync")
  /\ UNCHANGED <<dbVars, healthVars, authVars, collections, syncMetadata, statsFile,
                 started, batchLog, probe, collectionsSchema, authPass, todo, acc, first, now,
                 faults,
                 writes>>

\* a forceFullSync that forgets to clear the watermarks
ForceFullSyncKeepsWatermarks(p) ==
  /\ started
  /\ pc[p] = "idle"
  /\ EnterFullSync(p, [syncStats EXCEPT !.duplicatesSkipped = 0], "force")
  /\ UNCHANGED <<dbVars, healthVars, authVars, collections, syncMetadata, statsFile,
                 started, batchLog, probe, collectionsSchema, authPass, todo, acc, first, now,
                 faults,
                 writes>>

\* POST /api/sync/full: forceFullSync
ForceFullSync(p) ==
  /\ started
  /\ pc[p] = "idle"
  /\ syncMetadata' = NoMetadata
  /\ EnterFullSync(p, [syncStats EXCEPT !.duplicatesSkipped = 0], "force")
  /\ UNCHANGED <<dbVars, healthVars, authVars, collections, statsFile,
                 started, batchLog, probe, collectionsSchema, authPass, todo, acc, first, now,
                 faults,
                 writes>>

\* a first gate that forgets the database flag
MainOfflineAuthOnly == ~isMainAuthOnline'

\* the two gates of performFullSync, read once its health check has answered
MainOffline == ~isMainDbOnline' \/ ~isMainAuthOnline'

BackupOffline == ~isBackupDbOnline' \/ ~isBackupAuthOnline'

\* the health check of the run and the two gates behind it
HealthGate(p) ==
  /\ pc[p] = "health"
  /\ checkDatabaseHealth
  /\ IF MainOffline
     THEN /\ syncStats' = [syncStats EXCEPT !.status = "paused"]
          /\ emitStats(<<Event("syncStats", "paused")>>, "paused", "run")
          /\ Release(p)
     ELSE IF BackupOffline
     THEN /\ syncStats' = [syncStats EXCEPT !.status = "error", !.errors = @ + 1]
          /\ emitStats(<<Event("syncStats", "error")>>, "error", "run")
          /\ Release(p)
     ELSE /\ pc' = [pc EXCEPT ![p] = "discover"]
          /\ UNCHANGED <<isSyncing, syncStats, refused, runStart, res, io>>
  /\ UNCHANGED <<dbVars, authVars, envVars, collections, syncMetadata, statsFile,
                 started, batchLog, collectionsSchema, authPass, todo, acc, first>>

\* performFirestoreSync up to its loop
DiscoverStep(p) ==
  /\ pc[p] = "discover"
  /\ \E fails \in BOOLEAN :
        /\ fails => faults < MaxFaults
        /\ faults' = IF fails THEN faults + 1 ELSE faults
        /\ discoverCollections(syncStats, fails, "run")
  /\ todo' = [todo EXCEPT ![p] = collections']
  /\ acc' = [acc EXCEPT ![p] = 0]
  /\ first' = [first EXCEPT ![p] = (syncStats.lastFullSync = 0)]
  /\ pc' = [pc EXCEPT ![p] = "sync"]
  /\ UNCHANGED <<dbVars, healthVars, authVars, isSyncing, syncMetadata, statsFile,
                 started, batchLog, probe, authPass, now, runs, writes, refused, runStart, res>>

\* a turn that publishes collectionSynced before the progress of its call
collectionEventsSyncedFirst(collectionName, r) ==
  (IF r.threw THEN << >> ELSE <<Event("collectionSynced", collectionName)>>)
    \o [i \in 1..r.progress |-> Event("syncProgress", collectionName)]

\* what one turn of the forward loop publishes: a syncProgress after each commit
\* made inside the write loop, then collectionSynced when the call returned
collectionEvents(collectionName, r) ==
  [i \in 1..r.progress |-> Event("syncProgress", collectionName)]
    \o (IF r.threw THEN << >> ELSE <<Event("collectionSynced", collectionName)>>)

\* a loop that stops at the first collection whose replication throws
SyncCollectionStepAborts(p, F) ==
  /\ pc[p] = "sync"
  /\ todo[p] # << >>
  /\ \E fault \in F :
       LET r == syncCollectionToBackup(Head(todo[p]), ~first[p], fault)
       IN /\ fault # "none" => (faults < MaxFaults /\ r.faulted)
          /\ faults' = IF fault # "none" THEN faults + 1 ELSE faults
          /\ backupDb' = r.target
          /\ syncMetadata' = r.meta
          /\ syncStats' = [syncStats EXCEPT
                             !.duplicatesSkipped = @ + r.dup,
                             !.errors = @ + r.errs + (IF r.threw THEN 1 ELSE 0)]
          /\ acc' = [acc EXCEPT ![p] = IF r.threw THEN @ ELSE @ + r.count]
          /\ todo' = [todo EXCEPT ![p] = IF r.threw THEN << >> ELSE Tail(@)]
          /\ emit(collectionEvents(Head(todo[p]), r), "run")
  /\ UNCHANGED <<mainDb, healthVars, authVars, isSyncing, collections, statsFile, started,
                 batchLog, probe, collectionsSchema, authPass, pc, first, now, runs, writes,
                 refused, runStart, res>>

\* one turn of the loop of performFirestoreSync
SyncCollectionStep(p, F) ==
  /\ pc[p] = "sync"
  /\ todo[p] # << >>
  /\ \E fault \in F :
       LET r == syncCollectionToBackup(Head(todo[p]), ~first[p], fault)
       IN /\ fault # "none" => (faults < MaxFaults /\ r.faulted)
          /\ faults' = IF fault # "none" THEN faults + 1 ELSE faults
          /\ backupDb' = r.target
          /\ syncMetadata' = r.meta
          /\ syncStats' = [syncStats EXCEPT
                             !.duplicatesSkipped = @ + r.dup,
                             !.errors = @ + r.errs + (IF r.threw THEN 1 ELSE 0)]
          /\ acc' = [acc EXCEPT ![p] = IF r.threw THEN @ ELSE @ + r.count]
          /\ emit(collectionEvents(Head(todo[p]), r), "run")
  /\ todo' = [todo EXCEPT ![p] = Tail(@)]
  /\ UNCHANGED <<mainDb, healthVars, authVars, isSyncing, collections, statsFile, started,
                 batchLog, probe, collectionsSchema, authPass, pc, first, now, runs, writes,
                 refused, runStart, res>>

\* performFirestoreSync after its loop
FirestoreSyncDone(p) ==
  /\ pc[p] = "sync"
  /\ todo[p] = << >>
  /\ syncStats' = [syncStats EXCEPT
                     !.totalSynced = @ + acc[p],
                     !.incrementalSyncs = @ + 1,
                     !.lastFullSync = IF first[p] THEN now ELSE @]
  /\ saveStats(syncStats')
  /\ pc' = [pc EXCEPT ![p] = "auth"]
  /\ UNCHANGED <<dbVars, healthVars, authVars, envVars, isSyncing, collections,
                 syncMetadata, started, batchLog, probe, sideVars, todo, acc, first, refused,
                 runStart, res>>

\* authSyncService.performFullAuthSync: fails = the export of the users throws
performFullAuthSync(fails) ==
  IF fails
  THEN /\ authSyncStats' = [authSyncStats EXCEPT !.lastSync = now, !.errors = @ + 1]
       /\ backupUsers' = backupUsers
  ELSE /\ authSyncStats' = [authSyncStats EXCEPT
                              !.lastSync = now,
                              !.totalUsers = Cardinality(MainUsers),
                              !.syncedUsers = Cardinality(MainUsers),
                              !.customClaims = Cardinality(ClaimUsers)]
       /\ backupUsers' = backupUsers \cup MainUsers

\* this.syncStats as a reader sees it: authSync may be the auth service's object
StatsView(stats, aliased, auth) == IF aliased THEN [stats EXCEPT !.authSync = auth] ELSE stats

\* the loop of importUsersToBackup from users[i] on: the chunk number failAt
\* makes importUsers throw (0: none does), the uids in rejected are those that
\* a successful importUsers reports in result.errors
RECURSIVE importChunks(_, _, _, _, _)
importChunks(users, i, st, failAt, rejected) ==
  IF i > Len(users)
  THEN st
  ELSE LET last == IF i + ImportLimit - 1 < Len(users) THEN i + ImportLimit - 1 ELSE Len(users)
           batch == SubSeq(users, i, last)
           failed == Range(batch) \cap rejected
           next == IF (i - 1) \div ImportLimit + 1 = failAt
                   THEN [st EXCEPT !.errors = @ + 1, !.thrown = @ + Len(batch)]
                   ELSE [st EXCEPT
                           !.totalImported = @ + (Len(batch) - Cardinality(failed)),
                           !.imported = @ \cup (Range(batch) \ failed),
                           !.failureCount = @ + Cardinality(failed)]
       IN importChunks(users, i + ImportLimit, next, failAt, rejected)

importUsersToBackup(users, failAt, rejected) ==
  importChunks(users, 1,
               [totalImported |-> 0, errors |-> 0, imported |-> {}, thrown |-> 0,
                failureCount |-> 0],
               failAt, rejected)

\* the number of chunks the loop of importUsersToBackup makes of n users
Chunks(n) == (n + ImportLimit - 1) \div ImportLimit

\* POST /api/sync/auth: forceFullAuthSync enters performFullAuthSync, which
\* runs up to the await of its export
ForceFullAuthSync(q) ==
  /\ started
  /\ authPass[q].at = "idle"
  /\ authSyncStats' = [authSyncStats EXCEPT !.lastSync = now]
  /\ authPass' = [authPass EXCEPT ![q].at = "export"]
  /\ UNCHANGED <<dbVars, healthVars, backupUsers, authSyncAliased, localVars, envVars,
                 isSyncing, syncStats, collections, syncMetadata, statsFile, started,
                 batchLog, probe, collectionsSchema, io, runStart, res>>

\* the catch of performFullAuthSync; forceFullAuthSync rethrows
AuthSyncThrows(q) ==
  /\ faults < MaxFaults
  /\ faults' = faults + 1
  /\ authSyncStats' = [authSyncStats EXCEPT !.errors = @ + 1]
  /\ authPass' = [authPass EXCEPT ![q].at = "done", ![q].threw = TRUE]
  /\ UNCHANGED <<backupUsers, authSyncAliased, statsFile>>

\* exportUsersFromMain answers: totalUsers is assigned, the import begins
AuthExported(q) ==
  /\ authPass[q].at = "export"
  /\ \/ AuthSyncThrows(q)
     \/ \E users \in Exports :
          /\ authSyncStats' = [authSyncStats EXCEPT !.totalUsers = Len(users)]
          /\ authPass' = [authPass EXCEPT ![q].at = "import", ![q].users = users]
          /\ UNCHANGED <<backupUsers, authSyncAliased, statsFile, faults>>
  /\ UNCHANGED <<dbVars, healthVars, localVars, now, runs, writes, isSyncing, syncStats,
                 collections, syncMetadata, started, batchLog, probe, collectionsSchema, io,
                 runStart, res>>

\* importUsersToBackup returns: syncedUsers is assigned, syncCustomClaims begins
AuthImported(q) ==
  /\ authPass[q].at = "import"
  /\ \E failAt \in 0..Chunks(Len(authPass[q].users)), rejected \in SUBSET {"uid2"} :
       LET r == importUsersToBackup(authPass[q].users, failAt, rejected)
       IN /\ failAt # 0 => faults < MaxFaults
          /\ faults' = IF failAt # 0 THEN faults + 1 ELSE faults
          /\ backupUsers' = backupUsers \cup r.imported
          /\ authSyncStats' = [authSyncStats EXCEPT
                                 !.errors = @ + r.errors,
                                 !.syncedUsers = r.totalImported]
          /\ authPass' = [authPass EXCEPT
                            ![q].at = "claims",
                            ![q].syncedCount = r.totalImported,
                            ![q].thrown = r.thrown,
                            ![q].failureCount = r.failureCount]
  /\ UNCHANGED <<dbVars, healthVars, authSyncAliased, localVars, now, runs, writes,
                 isSyncing, syncStats, collections, syncMetadata, statsFile, started, batchLog,
                 probe, collectionsSchema, io, runStart, res>>

\* syncCustomClaims returns: customClaims is assigned, performFullAuthSync
\* returns the shared object and forceFullAuthSync publishes and saves it
AuthClaimsSynced(q) ==
  /\ authPass[q].at = "claims"
  /\ \/ AuthSyncThrows(q)
     \/ \E mainUsers \in Exports, failing \in SUBSET ClaimUsers :
          LET claimsSynced == Cardinality((Range(mainUsers) \cap ClaimUsers) \ failing)
          IN /\ authSyncStats' = [authSyncStats EXCEPT !.customClaims = claimsSynced]
             /\ authPass' = [authPass EXCEPT ![q].at = "done",
                                              ![q].claimsSynced = claimsSynced]
             /\ authSyncAliased' = TRUE
             /\ saveStats(StatsView(syncStats, TRUE, authSyncStats'))
             /\ UNCHANGED <<backupUsers, faults>>
  /\ UNCHANGED <<dbVars, healthVars, localVars, now, runs, writes, isSyncing, syncStats,
                 collections, syncMetadata, started, batchLog, probe, collectionsSchema, io,
                 runStart, res>>

\* the auth phase and the end of performFullSync
AuthSyncStep(p) ==
  /\ pc[p] = "auth"
  /\ \E fails \in BOOLEAN :
        /\ fails => faults < MaxFaults
        /\ faults' = IF fails THEN faults + 1 ELSE faults
        /\ performFullAuthSync(fails)
        /\ authSyncAliased' = (authSyncAliased \/ ~fails)
        /\ syncStats' = [syncStats EXCEPT
                           !.errors = IF fails THEN @ + 1 ELSE @,
                           !.status = "completed",
                           !.lastSync = now]
  /\ saveStats(StatsView(syncStats', authSyncAliased', authSyncStats'))
  /\ emitStats(<< >>, "completed", "run")
  /\ Release(p)
  /\ UNCHANGED <<dbVars, healthVars, collections, syncMetadata, started, batchLog, probe,
                 collectionsSchema, authPass, todo, acc, first, now, runs, writes>>

-----------------------------------------------------------------------------
(* Recovery: EnhancedSyncService.performRecovery *)

\* POST /api/recover: the lock, then the gate on the flags as they stand
PerformRecovery(p) ==
  /\ started
  /\ pc[p] = "idle"
  /\ IF SyncInProgress
     THEN /\ refused' = TRUE
          /\ Respond(p, "recover")
          /\ UNCHANGED <<isSyncing, syncStats, pc, todo, acc, runs, runStart, io>>
     ELSE /\ runs < MaxRuns
          /\ runs' = runs + 1
          /\ refused' = FALSE
          /\ syncStats' = [syncStats EXCEPT !.status = "recovering"]
          /\ IF ~isMainDbOnline \/ ~isMainAuthOnline
             THEN /\ isSyncing' = FALSE
                  /\ Respond(p, "recover")
                  /\ emitStats(<<Event("syncStats", "recovering")>>, "recovering", "other")
                  /\ UNCHANGED <<pc, todo, acc, runStart>>
             ELSE /\ isSyncing' = TRUE
                  /\ emitStats(<< >>, "recovering", "other")
                  /\ runStart' = Snapshot("recover")
                  /\ res' = res
                  /\ pc' = [pc EXCEPT ![p] = "recover"]
                  /\ todo' = [todo EXCEPT ![p] = collections]
                  /\ acc' = [acc EXCEPT ![p] = 0]
  /\ UNCHANGED <<dbVars, healthVars, authVars, collections, syncMetadata, statsFile,
                 started, batchLog, probe, collectionsSchema, authPass, first, now, faults,
                 writes>>

\* one turn of the loop of performRecovery
RecoverCollectionStep(p, F) ==
  /\ pc[p] = "recover"
  /\ todo[p] # << >>
  /\ \E fault \in F \ {"verify"} :
       LET r == syncCollectionToMain(Head(todo[p]), TRUE, fault)
       IN /\ fault # "none" => (faults < MaxFaults /\ r.faulted)
          /\ faults' = IF fault # "none" THEN faults + 1 ELSE faults
          /\ mainDb' = r.target
          /\ syncMetadata' = r.meta
          /\ syncStats' = [syncStats EXCEPT
                             !.duplicatesSkipped = @ + r.dup,
                             !.errors = @ + r.errs + (IF r.threw THEN 1 ELSE 0)]
          /\ acc' = [acc EXCEPT ![p] = IF r.threw THEN @ ELSE @ + r.count]
  /\ todo' = [todo EXCEPT ![p] = Tail(@)]
  /\ UNCHANGED <<backupDb, healthVars, authVars, isSyncing, collections, statsFile,
                 started, batchLog, probe, sideVars, pc, first, now, runs, writes, refused,
                 runStart, res>>

\* performRecovery after its loop
RecoveryDone(p) ==
  /\ pc[p] = "recover"
  /\ todo[p] = << >>
  /\ syncStats' = [syncStats EXCEPT !.totalSynced = @ + acc[p], !.status = "completed"]
  /\ saveStats(StatsView(syncStats', authSyncAliased, authSyncStats))
  /\ emitStats(<< >>, "completed", "other")
  /\ Release(p)
  /\ UNCHANGED <<dbVars, healthVars, authVars, envVars, collections, syncMetadata,
                 started, batchLog, probe, collectionsSchema, authPass, todo, acc, first>>

-----------------------------------------------------------------------------
(* Routes and handlers beside the runs *)

\* the ids of the documents that collection(collectionName).get() returns
snapshotIds(db, collectionName) == {s[2] : s \in {x \in DOMAIN db : x[1] = collectionName}}

\* the ids every one of which the other map has
missingFromNeither(docs, other) == {}

\* the ids of docs for which other.has(id) is false
missingFrom(docs, other) == docs \ other

\* the issues pushed for the ids of one kind, in the order of the snapshot
issuesOf(type, ids) ==
  LET Missing(id) == id \in ids
      Issue(id) == [type |-> type, documentId |-> id]
      order == IF ids \subseteq Range(IdOrder) THEN IdOrder ELSE IdOrder \o BulkIds
      found == SelectSeq(order, Missing)
  IN [i \in 1..Len(found) |-> Issue(found[i])]

\* the report entry of one collection; fails = one of its two reads throws
integrityEntry(collectionName, fails) ==
  LET mainDocs == snapshotIds(mainDb, collectionName)
      backupDocs == snapshotIds(backupDb, collectionName)
      issues == issuesOf("missing_in_backup", missingFrom(mainDocs, backupDocs))
                  \o issuesOf("missing_in_main", missingFrom(backupDocs, mainDocs))
  IN IF fails
     THEN [error |-> "read failed"]
     ELSE [mainCount |-> Cardinality(mainDocs), backupCount |-> Cardinality(backupDocs),
           issues |-> Len(issues), issueDetails |-> issues]

RECURSIVE totalIssues(_, _)
totalIssues(entries, names) ==
  IF names = << >>
  THEN 0
  ELSE (IF "issues" \in DOMAIN entries[Head(names)] THEN entries[Head(names)].issues ELSE 0)
         + totalIssues(entries, Tail(names))

\* performDataIntegrityCheck over this.collections
performDataIntegrityCheck(failing) ==
  LET entries == [c \in Range(collections) |-> integrityEntry(c, c \in failing)]
  IN [collections |-> entries, totalIssues |-> totalIssues(entries, collections),
      timestamp |-> now]

\* POST /api/integrity-check
IntegrityCheck ==
  /\ started
  /\ \E failing \in {{}} \cup {{c} : c \in Range(collections)} :
        /\ failing # {} => faults < MaxFaults
        /\ faults' = IF failing # {} THEN faults + 1 ELSE faults
        /\ res' = [success |-> TRUE, report |-> performDataIntegrityCheck(failing)]
  /\ io' = [io EXCEPT !.sent = <<Event("integrityReport", "")>>, !.reported = TRUE]
  /\ UNCHANGED <<dbVars, healthVars, authVars, localVars, isSyncing, syncStats,
                 collections, syncMetadata, statsFile, started, batchLog, probe,
                 collectionsSchema, authPass, now, runs,
                 writes, runStart>>

\* getStats: the fields a reader of the statistics receives
getStats(stats, auth, mainDbOnline, backupDbOnline, mainAuthOnline, backupAuthOnline) ==
  [syncStats |-> stats, authStats |-> auth,
   healthStatus |-> <<mainDbOnline, backupDbOnline, mainAuthOnline, backupAuthOnline>>]

\* one await of a checkDatabaseHealth that other rounds may overlap: the next
\* probe of round r answers and its flag is assigned
ProbeStep(r) ==
  /\ \E b \in BOOLEAN :
       LET k == probe.at[r]
           seen == Append(probe.seen[r], b)
       IN /\ isMainDbOnline' = IF k = 0 THEN b ELSE isMainDbOnline
          /\ isBackupDbOnline' = IF k = 1 THEN b ELSE isBackupDbOnline
          /\ isMainAuthOnline' = IF k = 2 THEN b ELSE isMainAuthOnline
          /\ isBackupAuthOnline' = IF k = 3 THEN b ELSE isBackupAuthOnline
          /\ probe' = IF k = 3
                      THEN [at |-> [probe.at EXCEPT ![r] = 0],
                            seen |-> [probe.seen EXCEPT ![r] = << >>],
                            last |-> seen]
                      ELSE [at |-> [probe.at EXCEPT ![r] = k + 1],
                            seen |-> [probe.seen EXCEPT ![r] = seen],
                            last |-> probe.last]
  /\ UNCHANGED <<dbVars, authVars, localVars, envVars, isSyncing, syncStats,
                 collections, syncMetadata, statsFile, started, batchLog, sideVars, runStart,
                 res>>

\* the call that the run of p awaits never settles: nothing resumes the run
NeverResponds(p) ==
  /\ pc[p] \in {"health", "discover", "sync", "auth", "recover"}
  /\ faults < MaxFaults
  /\ faults' = faults + 1
  /\ pc' = [pc EXCEPT ![p] = "hung"]
  /\ UNCHANGED <<dbVars, healthVars, authVars, isSyncing, syncStats, collections,
                 syncMetadata, statsFile, started, batchLog, probe, sideVars, todo, acc, first,
                 refused, now, runs, writes, runStart, res>>

-----------------------------------------------------------------------------
(* A new process on the same databases and the same logs directory *)

\* loadStats: { ...this.syncStats, ...savedStats } when the file exists
loadStats == IF statsFile = << >> THEN InitialStats ELSE statsFile[1]

\* the process ends and another is constructed: what lived in memory only is
\* as the constructors make it, syncStats is what loadStats finds
Restart ==
  /\ started
  /\ started' = FALSE
  /\ syncStats' = loadStats
  /\ syncMetadata' = NoMetadata
  /\ collections' = << >>
  /\ isSyncing' = FALSE
  /\ isMainDbOnline' = FALSE
  /\ isBackupDbOnline' = FALSE
  /\ isMainAuthOnline' = FALSE
  /\ isBackupAuthOnline' = FALSE
  /\ authSyncStats' = NoAuthStats
  /\ authSyncAliased' = FALSE
  /\ pc' = [p \in Callers |-> "idle"]
  /\ todo' = [p \in Callers |-> << >>]
  /\ acc' = [p \in Callers |-> 0]
  /\ first' = [p \in Callers |-> FALSE]
  /\ refused' = FALSE
  /\ runStart' = NoRun
  /\ res' = NoReply
  /\ probe' = NoProbe
  /\ collectionsSchema' = NoSchema
  /\ io' = NoIo
  /\ authPass' = NoPass
  /\ UNCHANGED <<dbVars, backupUsers, statsFile, envVars, batchLog>>

-----------------------------------------------------------------------------

Next ==
  \/ Tick
  \/ Restart
  \/ PrimaryWrite
  \/ BulkWrite
  \/ StandbyWrite
  \/ StartServer
  \/ HealthTimer
  \/ DiscoverTimer
  \/ ResetStats
  \/ \E p \in Callers : PerformFullSync(p)
  \/ \E p \in Callers : ForceFullSync(p)
  \/ \E p \in Callers : HealthGate(p)
  \/ \E p \in Callers : DiscoverStep(p)
  \/ \E p \in Callers : SyncCollectionStep(p, Faults)
  \/ \E p \in Callers : FirestoreSyncDone(p)
  \/ \E p \in Callers : AuthSyncStep(p)
  \/ \E p \in Callers : PerformRecovery(p)
  \/ \E p \in Callers : RecoverCollectionStep(p, Faults)
  \/ \E p \in Callers : RecoveryDone(p)
  \/ IntegrityCheck
  \/ \E r \in Probers : ProbeStep(r)
  \/ \E p \in Callers : NeverResponds(p)
  \/ \E q \in AuthCallers : ForceFullAuthSync(q)
  \/ \E q \in AuthCallers : AuthExported(q)
  \/ \E q \in AuthCallers : AuthImported(q)
  \/ \E q \in AuthCallers : AuthClaimsSynced(q)

Spec == Init /\ [][Next]_vars

-----------------------------------------------------------------------------
(* Restricted environments *)

Idle == \A p \in Callers : pc[p] = "idle"

AllOnline ==
  isMainDbOnline' /\ isBackupDbOnline' /\ isMainAuthOnline' /\ isBackupAuthOnline'

NoFault == faults' = faults

\* One caller, every probe answers true, no gateway call fails; documents, the
\* clock and the counters change between runs only.
NextData ==
  \/ Idle /\ Tick
  \/ Idle /\ PrimaryWrite
  \/ Idle /\ StandbyWrite
  \/ Idle /\ ResetStats
  \/ Idle /\ HealthTimer /\ AllOnline
  \/ StartServer /\ NoFault
  \/ PerformFullSync("http")
  \/ ForceFullSync("http")
  \/ HealthGate("http") /\ AllOnline
  \/ DiscoverStep("http") /\ NoFault
  \/ SyncCollectionStep("http", {"none"})
  \/ FirestoreSyncDone("http")
  \/ AuthSyncStep("http") /\ NoFault
  \/ PerformRecovery("http")
  \/ RecoverCollectionStep("http", {"none"})
  \/ RecoveryDone("http")

SpecData == Init /\ [][NextData]_vars

\* Two callers and every outcome of the probes; no gateway call fails.
NextGate ==
  \/ Idle /\ PrimaryWrite /\ writes = 0
  \/ StartServer /\ NoFault
  \/ Idle /\ HealthTimer
  \/ \E p \in Callers : PerformFullSync(p)
  \/ ForceFullSync("http")
  \/ \E p \in Callers : HealthGate(p)
  \/ \E p \in Callers : DiscoverStep(p) /\ NoFault
  \/ \E p \in Callers : SyncCollectionStep(p, {"none"})
  \/ \E p \in Callers : FirestoreSyncDone(p)
  \/ \E p \in Callers : AuthSyncStep(p) /\ NoFault
  \/ PerformRecovery("http")
  \/ \E p \in Callers : RecoverCollectionStep(p, {"none"})
  \/ \E p \in Callers : RecoveryDone(p)

SpecGate == Init /\ [][NextGate]_vars

\* As NextData, and any one call of a collection's replication may fail.
NextFault ==
  \/ Idle /\ PrimaryWrite
  \/ Idle /\ StandbyWrite
  \/ Idle /\ HealthTimer /\ AllOnline
  \/ StartServer /\ NoFault
  \/ PerformFullSync("http")
  \/ HealthGate("http") /\ AllOnline
  \/ DiscoverStep("http") /\ NoFault
  \/ SyncCollectionStep("http", Faults)
  \/ FirestoreSyncDone("http")
  \/ AuthSyncStep("http") /\ NoFault
  \/ PerformRecovery("http")
  \/ RecoverCollectionStep("http", Faults)
  \/ RecoveryDone("http")

SpecFault == Init /\ [][NextFault]_vars

\* Two forward runs in a row: the primary is filled before the first, which
\* finds every endpoint healthy and the standby empty, and is left alone after.
NextIdem ==
  \/ Idle /\ Tick
  \/ Idle /\ PrimaryWrite /\ runs = 0
  \/ StartServer /\ NoFault
  \/ PerformFullSync("http")
  \/ HealthGate("http") /\ (runs = 1 => AllOnline)
  \/ DiscoverStep("http") /\ NoFault
  \/ SyncCollectionStep("http", IF runs = 1 THEN {"none"} ELSE Faults)
  \/ FirestoreSyncDone("http")
  \/ AuthSyncStep("http") /\ NoFault

SpecIdem == Init /\ [][NextIdem]_vars

\* As NextData without the resets, and the process may be replaced between runs.
NextRestart ==
  \/ Idle /\ PrimaryWrite
  \/ Idle /\ StandbyWrite
  \/ Idle /\ HealthTimer /\ AllOnline
  \/ Idle /\ Restart
  \/ StartServer /\ NoFault
  \/ PerformFullSync("http")
  \/ HealthGate("http") /\ AllOnline
  \/ DiscoverStep("http") /\ NoFault
  \/ SyncCollectionStep("http", {"none"})
  \/ FirestoreSyncDone("http")
  \/ AuthSyncStep("http") /\ NoFault
  \/ PerformRecovery("http")
  \/ RecoverCollectionStep("http", {"none"})
  \/ RecoveryDone("http")

SpecRestart == Init /\ [][NextRestart]_vars

\* As NextIdem with no failures, and either run may be a ForceFull.
NextRepeat ==
  \/ Idle /\ Tick
  \/ Idle /\ PrimaryWrite /\ runs = 0
  \/ StartServer /\ NoFault
  \/ PerformFullSync("http")
  \/ ForceFullSync("http")
  \/ HealthGate("http") /\ AllOnline
  \/ DiscoverStep("http") /\ NoFault
  \/ SyncCollectionStep("http", {"none"})
  \/ FirestoreSyncDone("http")
  \/ AuthSyncStep("http") /\ NoFault

SpecRepeat == Init /\ [][NextRepeat]_vars

\* The write loop alone, on a number of pending writes around the batch limit.
BatchSizes == (BatchLimit - MaxBelow)..(BatchLimit + MaxOver)

\* documentsToSync: n documents that passed the duplicate check
PendingWrites(n) == [i \in 1..n |-> [id |-> i, data |-> NoData, updatedAt |-> 1]]

InitBatch ==
  /\ Constructed
  /\ batchLog \in {[NoLog EXCEPT !.docs = n, !.failAt = f] :
                      n \in BatchSizes, f \in 0..(MaxFaults + 1)}

WriteBatches ==
  /\ ~batchLog.done
  /\ LET r == BatchWrite(PendingWrites(batchLog.docs), batchLog.failAt)
     IN batchLog' = [batchLog EXCEPT !.done = TRUE, !.commits = r.commits,
                                     !.total = r.total, !.written = r.written,
                                     !.errors = r.errors, !.threw = r.threw]
  /\ UNCHANGED <<dbVars, healthVars, authVars, localVars, envVars, isSyncing, syncStats,
                 collections, syncMetadata, statsFile, started, runStart, res, probe, sideVars>>

NextBatch == WriteBatches

SpecBatch == InitBatch /\ [][NextBatch]_vars

\* The reconciliation report beside the writes of the clients of both projects.
NextReconcile ==
  \/ PrimaryWrite
  \/ StandbyWrite
  \/ StartServer /\ NoFault
  \/ DiscoverTimer /\ NoFault
  \/ IntegrityCheck

SpecReconcile == Init /\ [][NextReconcile]_vars

\* One caller on empty databases; the health timer fires at any time and
\* answers anything, and any one call of a run may fail.
NextOutage ==
  \/ HealthTimer
  \/ StartServer /\ NoFault
  \/ PerformFullSync("http")
  \/ HealthGate("http")
  \/ DiscoverStep("http")
  \/ SyncCollectionStep("http", Faults)
  \/ FirestoreSyncDone("http")
  \/ AuthSyncStep("http")
  \/ PerformRecovery("http")
  \/ RecoverCollectionStep("http", Faults)
  \/ RecoveryDone("http")

SpecOutage == Init /\ [][NextOutage]_vars

\* Overlapping rounds of checkDatabaseHealth, one await at a time.
NextProbe == \E r \in Probers : ProbeStep(r)

SpecProbe == Init /\ [][NextProbe]_vars

\* One forward run at a time whose awaited calls answer or never do; a run that
\* can take its next step does take it.
RunSteps(p) ==
  \/ HealthGate(p) /\ AllOnline
  \/ DiscoverStep(p) /\ NoFault
  \/ SyncCollectionStep(p, {"none"})
  \/ FirestoreSyncDone(p)
  \/ AuthSyncStep(p) /\ NoFault

NextHang ==
  \/ Idle /\ PrimaryWrite
  \/ StartServer /\ NoFault
  \/ PerformFullSync("http")
  \/ RunSteps("http")
  \/ NeverResponds("http")

SpecHang == Init /\ [][NextHang]_vars /\ WF_vars(RunSteps("http"))

\* The scheduled forward runs alone, window after window of the schedule, every
\* probe answering true and no call failing.
NextWindow ==
  /\ runs = MaxRuns
  /\ syncStats.incrementalSyncs < ReportEvery
  /\ runs' = 0
  /\ UNCHANGED <<dbVars, healthVars, authVars, localVars, sideVars, isSyncing, syncStats,
                 collections, syncMetadata, statsFile, started, batchLog, probe, now, faults,
                 writes, runStart, res>>

NextSchedule ==
  \/ Idle /\ NextWindow
  \/ StartServer /\ NoFault
  \/ PerformFullSync("cron")
  \/ HealthGate("cron") /\ AllOnline
  \/ DiscoverStep("cron") /\ NoFault
  \/ SyncCollectionStep("cron", {"none"})
  \/ FirestoreSyncDone("cron")
  \/ AuthSyncStep("cron") /\ NoFault

SpecSchedule == Init /\ [][NextSchedule]_vars

\* Forward runs over a primary that an import job may have filled beyond one
\* write loop's limit; the gate sees any health, a commit may fail.
NextEvents ==
  \/ Idle /\ BulkWrite /\ writes = 0
  \/ StartServer /\ NoFault
  \/ Idle /\ HealthTimer /\ AllOnline
  \/ PerformFullSync("http")
  \/ HealthGate("http")
  \/ DiscoverStep("http") /\ NoFault
  \/ SyncCollectionStep("http", {"none", "commit"})
  \/ FirestoreSyncDone("http")
  \/ AuthSyncStep("http") /\ NoFault

SpecEvents == Init /\ [][NextEvents]_vars

\* Requests for an auth pass that may overlap, one await at a time.
NextAuth ==
  \/ Tick
  \/ StartServer /\ NoFault
  \/ \E q \in AuthCallers : ForceFullAuthSync(q)
  \/ \E q \in AuthCallers : AuthExported(q)
  \/ \E q \in AuthCallers : AuthImported(q)
  \/ \E q \in AuthCallers : AuthClaimsSynced(q)

SpecAuth == Init /\ [][NextAuth]_vars

-----------------------------------------------------------------------------
(* Claims about the lock and the health gate, under SpecGate *)

Running(p) == pc[p] # "idle"

\* the step in which the run of p leaves its health check, whichever way
LeavesGate(p) == pc[p] = "health" /\ pc'[p] # "health"

\* the counters of RunCounters
Counters(stats) ==
  <<stats.totalSynced, stats.duplicatesSkipped, stats.errors, stats.incrementalSyncs,
    stats.lastSync, stats.lastFullSync>>

\* C1: at most one run body executes at any instant, a run body executes only
\* under the lock, and no caller enters a run body in a step that starts with
\* the lock taken: a call made then leaves every caller where it was and
\* both databases and the standby's users as they were.
OneRunAtATime ==
  /\ [](\A p, q \in Callers : Running(p) /\ Running(q) => p = q)
  /\ []((\E p \in Callers : Running(p)) => isSyncing)
  /\ [][\A p \in Callers : isSyncing /\ ~Running(p) => ~Running(p)']_vars
  /\ [][isSyncing /\ ~refused /\ refused' =>
          pc' = pc /\ todo' = todo /\ dbVars' = dbVars /\ backupUsers' = backupUsers]_vars

\* C1 witness: a call was refused while the run of another caller is in its loop
RefusedWhileRunning ==
  /\ refused
  /\ isSyncing
  /\ \E p, q \in Callers : p # q /\ pc[p] = "sync" /\ todo[p] # << >> /\ pc[q] = "idle"

\* C8 as stated: a forward run whose primary database probe fails ends paused
\* and leaves the standby, the watermarks and every run counter, lastSync
\* (lastRunAt) included, as they were when the run was called.
PausedRunChangesNothing ==
  [][\A p \in Callers :
       LeavesGate(p) /\ ~isMainDbOnline' /\ runStart.kind = "sync" =>
         /\ pc'[p] = "idle"
         /\ syncStats'.status = "paused"
         /\ backupDb' = runStart.backup
         /\ backupUsers' = runStart.users
         /\ syncMetadata' = runStart.meta
         /\ Counters(syncStats') = Counters(runStart.stats)]_vars

\* the step in which p enters the body of performFullSync
EntersFullSync(p) == pc[p] = "idle" /\ pc'[p] = "health"

\* C8 amended: the two steps of such a run write nothing to the standby, leave
\* the watermarks of a plain run alone and change no run counter except
\* lastSync, which the run sets to the time of its start before it probes; the
\* run ends paused.
PausedRunChangesOnlyLastSync ==
  [][\A p \in Callers :
       /\ EntersFullSync(p) =>
            /\ dbVars' = dbVars /\ backupUsers' = backupUsers
            /\ runStart'.kind = "sync" =>
                 /\ syncMetadata' = syncMetadata
                 /\ syncStats' = [syncStats EXCEPT !.status = "syncing", !.lastSync = now]
       /\ LeavesGate(p) /\ ~isMainDbOnline' =>
            /\ pc'[p] = "idle"
            /\ ~isSyncing'
            /\ dbVars' = dbVars /\ backupUsers' = backupUsers
            /\ syncMetadata' = syncMetadata
            /\ syncStats' = [syncStats EXCEPT !.status = "paused"]]_vars

\* C8 witness: a run was refused by the first gate while the primary held a
\* document that the standby lacks
PausedWithWorkToDo ==
  /\ syncStats.status = "paused"
  /\ ~isMainDbOnline
  /\ ~isSyncing
  /\ DOMAIN mainDb # {}
  /\ DOMAIN backupDb = {}
  /\ syncStats.lastSync # 0

\* C9 as stated: primary database healthy and standby database unhealthy at
\* the gate end the run with status error and one more error, whatever the two
\* auth probes answered.
StandbyDownEndsInError ==
  [][\A p \in Callers :
       LeavesGate(p) /\ isMainDbOnline' /\ ~isBackupDbOnline' =>
         /\ syncStats'.status = "error"
         /\ syncStats'.errors > syncStats.errors]_vars

\* C10 as stated: with both databases healthy at the gate the run goes on to
\* replicate the collections, whatever the two auth probes answered.
DatabasesUpReplicates ==
  [][\A p \in Callers :
       LeavesGate(p) /\ isMainDbOnline' /\ isBackupDbOnline' => pc'[p] = "discover"]_vars

-----------------------------------------------------------------------------
(* Claims about the replication of documents *)

\* one turn of the forward loop, of the recovery loop
ForwardStep(p) == pc[p] = "sync" /\ todo[p] # << >> /\ todo'[p] # todo[p]

RecoverStep(p) == pc[p] = "recover" /\ todo[p] # << >> /\ todo'[p] # todo[p]

\* the step that ends a forward run that passed the gate, a recovery that did
ForwardRunEnds(p) == pc[p] = "auth" /\ pc'[p] = "idle"

RecoveryEnds(p) == pc[p] = "recover" /\ pc'[p] = "idle"

\* the primary documents of a collection that are newer than its forward watermark
NewerThanWatermark(c) ==
  {s \in DOMAIN mainDb : s[1] = c /\ mainDb[s].updatedAt > syncMetadata[c]}

\* C2 as stated: after an incremental replication of a collection that counted
\* no error, every primary document newer than the watermark the call started
\* from is on the standby with a stored updatedAt at least its own.
NewerDocumentsReachStandby ==
  [][\A p \in Callers :
       ForwardStep(p) /\ ~first[p] /\ syncStats'.errors = syncStats.errors =>
         \A s \in NewerThanWatermark(Head(todo[p])) :
            /\ s \in DOMAIN backupDb'
            /\ backupDb'[s].updatedAt >= mainDb[s].updatedAt]_vars

\* C2 amended: ... is on the standby with a stored timestamp (updatedAt, or
\* createdAt when the standby copy has no updatedAt) at least its updatedAt.
NewerDocumentsReachStandbyByTimestamp ==
  [][\A p \in Callers :
       ForwardStep(p) /\ ~first[p] /\ syncStats'.errors = syncStats.errors =>
         \A s \in NewerThanWatermark(Head(todo[p])) :
            /\ s \in DOMAIN backupDb'
            /\ Or(backupDb'[s].updatedAt, backupDb'[s].createdAt) >= mainDb[s].updatedAt]_vars

\* C2 witness: an incremental run has moved a collection's watermark forward
\* and the standby holds the document that moved it
IncrementalRunPropagated ==
  \E p \in Callers, s \in DOMAIN mainDb \cap DOMAIN backupDb :
     /\ pc[p] = "sync" /\ ~first[p]
     /\ runStart.kind = "sync"
     /\ runStart.meta[s[1]] # 0
     /\ runStart.meta[s[1]] < syncMetadata[s[1]]
     /\ mainDb[s].updatedAt = syncMetadata[s[1]]
     /\ backupDb[s] = mainDb[s]

\* C3 as stated: except in the step of a ForceFull, no forward watermark ever
\* takes a smaller value.
ForwardWatermarkNeverDecreases ==
  [][(\E p \in Callers : pc[p] = "idle" /\ runStart'.kind = "force")
     \/ \A c \in AllCollections : syncMetadata'[c] >= syncMetadata[c]]_vars

\* a write to the target of a document whose target copy is at least as new
NoStaleWrite(source, target, targetAfter, c) ==
  \A s \in DOMAIN source \cap DOMAIN target :
     (s[1] = c /\ source[s].updatedAt # 0 /\ target[s].updatedAt >= source[s].updatedAt)
        => targetAfter[s] = target[s]

\* C4 as stated: neither direction writes a document whose target copy has an
\* updatedAt at least the source's, also when the pre-read of the target fails.
NoWriteOverNewerTarget ==
  [][\A p \in Callers :
       /\ ForwardStep(p) => NoStaleWrite(mainDb, backupDb, backupDb', Head(todo[p]))
       /\ RecoverStep(p) => NoStaleWrite(backupDb, mainDb, mainDb', Head(todo[p]))]_vars

\* C5 as stated: what was on the primary only when a RunOnce began is on the
\* standby, same id and same data, when that run ends.
PrimaryOnlyDocumentsReplicated ==
  [][\A p \in Callers :
       ForwardRunEnds(p) /\ runStart.kind = "sync" =>
         \A s \in DOMAIN runStart.main \ DOMAIN runStart.backup :
            s \in DOMAIN backupDb' /\ backupDb'[s] = runStart.main[s]]_vars

\* C6 as stated: what was on the standby only when a Recover passed its gate is
\* on the primary, same id and same data, when that recovery ends.
StandbyOnlyDocumentsRecovered ==
  [][\A p \in Callers :
       RecoveryEnds(p) =>
         \A s \in DOMAIN runStart.backup \ DOMAIN runStart.main :
            s \in DOMAIN mainDb' /\ mainDb'[s] = runStart.backup[s]]_vars

\* C7: the second of two forward runs over an unchanged primary, the first of
\* which filled an empty standby, changes neither totalSynced nor
\* duplicatesSkipped nor any forward watermark in any of its steps.
SecondRunIsNoOp ==
  [][runs = 2 /\ isSyncing =>
       /\ syncStats'.totalSynced = syncStats.totalSynced
       /\ syncStats'.duplicatesSkipped = syncStats.duplicatesSkipped
       /\ \A c \in AllCollections : syncMetadata'[c] = syncMetadata[c]]_vars

\* C7 witness: the second run has gone through its collections, after a first
\* run that copied two documents
SecondRunDone ==
  /\ runs = 2
  /\ \E p \in Callers : pc[p] = "auth"
  /\ syncStats.incrementalSyncs = 2
  /\ syncStats.totalSynced = 2
  /\ backupDb = mainDb

-----------------------------------------------------------------------------
(* Claims about responses, published counters and the stats file *)

\* C11 as stated: a call of a control route that finds a run active (here the
\* run of the cron job) is answered without success, with a body that no call
\* that ran is answered with.
BusyCallIsToldSo ==
  [][(isSyncing /\ ~refused /\ refused' /\ pc["cron"] # "idle") =>
        /\ ~res'.success
        /\ res' \notin {Reply(k) : k \in {"sync", "force", "recover"}}]_vars

\* the counters that emitStats publishes and the claim names
PublishedCounters(stats) ==
  <<stats.totalSynced, stats.duplicatesSkipped, stats.errors, stats.incrementalSyncs>>

\* C12 as stated: apart from the steps of POST /api/reset-stats, no step lowers
\* totalSynced, duplicatesSkipped, errors or incrementalSyncs.
CountersNeverDecrease ==
  [][\/ (syncStats' = InitialStats /\ statsFile' = <<InitialStats>> /\ pc' = pc)
     \/ \A i \in 1..4 : PublishedCounters(syncStats')[i] >= PublishedCounters(syncStats)[i]]_vars

\* C13 as stated: when a run that was started ends, whichever way, the stats
\* file holds the counters as they are then.
EveryRunSavesStats ==
  [][\A p \in Callers :
       (pc[p] # "idle" /\ pc'[p] = "idle") =>
          statsFile' = <<StatsView(syncStats', authSyncAliased', authSyncStats')>>]_vars

\* C14 as stated: a restart that finds the stats file of a previous run leaves
\* every forward and every recover watermark at the value it had.
RestartKeepsWatermarks ==
  [][(started /\ ~started' /\ statsFile # << >>) =>
        \A k \in MetaKeys : syncMetadata'[k] = syncMetadata[k]]_vars

\* what a replication of collection c that scans without a filter leaves on the
\* target: every source document is there, as it was if the comparison found
\* the target's copy at least as new, merged into it otherwise
ComparedAndCopied(source, target, targetAfter, c) ==
  \A s \in DOMAIN source :
     s[1] = c =>
        /\ s \in DOMAIN targetAfter
        /\ targetAfter[s] =
              IF IsDuplicate(target, c, [id |-> s[2], data |-> source[s]])
              THEN target[s]
              ELSE Merge(IF s \in DOMAIN target THEN target[s] ELSE NoData, source[s])

\* C15: the step of a ForceFull that finds the lock free leaves no watermark
\* and starts a forward run; that run's loop takes every collection that holds
\* a primary document, and each of its turns finds no watermark for its
\* collection, reads every primary document of it and leaves it on the standby.
ForceFullScansEverything ==
  [][/\ (runStart.kind = "none" /\ runStart'.kind = "force") =>
          (syncMetadata' = NoMetadata /\ \E p \in Callers : pc[p] = "idle" /\ pc'[p] = "health")
     /\ \A p \in Callers :
       /\ (runStart.kind = "force" /\ pc[p] = "discover" /\ pc'[p] = "sync") =>
             \A s \in DOMAIN mainDb : s[1] \in Range(todo'[p])
       /\ (runStart.kind = "force" /\ ForwardStep(p)) =>
             /\ syncMetadata[Head(todo[p])] = 0
             /\ ComparedAndCopied(mainDb, backupDb, backupDb', Head(todo[p]))]_vars

\* C15 witness: a ForceFull made when users had a watermark has copied a
\* document without updatedAt that the standby did not have
ForceFullCopiedUnstamped ==
  /\ runStart.kind = "force"
  /\ runStart.meta["users"] # 0
  /\ \E p \in Callers : pc[p] = "sync"
  /\ \E s \in (DOMAIN mainDb \cap DOMAIN backupDb) \ DOMAIN runStart.backup :
        s[1] = "users" /\ mainDb[s].updatedAt = 0 /\ backupDb[s] = mainDb[s]

\* C16 as stated: a turn of the recovery loop, which reads the standby and
\* writes the primary, is taken only with both databases known healthy.
RecoverOnlyWhenBothHealthy ==
  [][\A p \in Callers : RecoverStep(p) => (isMainDbOnline /\ isBackupDbOnline)]_vars

\* C17 as stated: a recovery does not end from its collection loop; an auth
\* replication and a reconcile pass come between the loop and the end.
RecoveryLoopIsNotTheLastPhase ==
  [][\A p \in Callers : ~(pc[p] = "recover" /\ pc'[p] = "idle")]_vars

\* C18 as stated: no turn of the recovery loop changes the forward watermark
\* of any collection.
RecoverKeepsForwardWatermarks ==
  [][\A p \in Callers :
       RecoverStep(p) => \A c \in AllCollections : syncMetadata'[c] = syncMetadata[c]]_vars

\* C19 as stated: in the second of two runs over an unchanged primary, a turn
\* of the loop for a collection with a document that has no updatedAt and that
\* the first run left on the standby writes nothing.
UnstampedNotWrittenAgain ==
  [][\A p \in Callers :
       (/\ runs = 2
        /\ ForwardStep(p)
        /\ \E s \in DOMAIN mainDb \cap DOMAIN backupDb :
              s[1] = Head(todo[p]) /\ mainDb[s].updatedAt = 0)
       => (acc'[p] = acc[p] /\ backupDb' = backupDb)]_vars

\* C20 as stated: when no commit fails, 450 pending writes are committed in
\* one commit, and 451 in two commits that put all 451 on the target.
BatchBoundary ==
  (batchLog.done /\ batchLog.failAt = 0) =>
     /\ batchLog.docs = BatchLimit => (batchLog.commits = 1 /\ batchLog.written = BatchLimit)
     /\ batchLog.docs = BatchLimit + 1 =>
           (batchLog.commits = 2 /\ batchLog.written = BatchLimit + 1)

-----------------------------------------------------------------------------
(* The reconciliation report *)

\* the ids a report entry lists under one type of issue
ReportedIds(entry, type) ==
  {entry.issueDetails[i].documentId :
     i \in {j \in 1..Len(entry.issueDetails) : entry.issueDetails[j].type = type}}

\* the ids of a collection present on one side
IdsIn(db, c) == {id \in Range(IdOrder) : <<c, id>> \in DOMAIN db}

-----------------------------------------------------------------------------
(* Resetting the statistics *)

\* C22: the step of POST /api/reset-stats leaves every counter that getStats
\* reports at zero: the document counters and the auth counters totalUsers,
\* syncedUsers, customClaims and errors of authStats.
ResetZeroesEveryCounter ==
  [][(/\ syncStats' = InitialStats
      /\ statsFile' = <<InitialStats>>
      /\ UNCHANGED <<dbVars, healthVars, envVars, started, pc>>) =>
       LET stats == getStats(syncStats', authSyncStats', isMainDbOnline', isBackupDbOnline',
                             isMainAuthOnline', isBackupAuthOnline')
       IN /\ stats.syncStats.totalSynced = 0
          /\ stats.syncStats.duplicatesSkipped = 0
          /\ stats.syncStats.errors = 0
          /\ stats.syncStats.incrementalSyncs = 0
          /\ stats.authStats.totalUsers = 0
          /\ stats.authStats.syncedUsers = 0
          /\ stats.authStats.customClaims = 0
          /\ stats.authStats.errors = 0]_vars

-----------------------------------------------------------------------------
(* The lock after a run *)

\* C23: whenever no run is in progress the lock is free, however the last run
\* ended (completed, stopped at the health gate, or with failed calls), and a
\* call made when no run is in progress is never refused.
LockFreeAfterEveryRun ==
  [][(Idle' => ~isSyncing') /\ (Idle => ~refused')]_vars

\* a second run has been accepted after a first one that counted an error
SecondRunAfterFailedRun ==
  /\ runs = 2
  /\ isSyncing
  /\ runStart.kind # "none"
  /\ runStart.stats.errors > 0

-----------------------------------------------------------------------------
(* What a failed commit and an unstamped document do *)

Min(a, b) == IF a < b THEN a ELSE b

\* C24: when the first batch.commit() of a write loop fails, the errors the call
\* leaves in the statistics (those of the loop, and one more when the call
\* throws) count every operation of the batch that failed.
FailedCommitCountsItsOperations ==
  (batchLog.done /\ batchLog.failAt = 1) =>
     batchLog.errors + (IF batchLog.threw THEN 1 ELSE 0) >= Min(batchLog.docs, BatchLimit)

\* C25: a turn of the forward loop leaves the watermark of its collection at its
\* previous value or at the updatedAt field of a document of the collection; a
\* document without the field moves it nowhere.
UnstampedWriteLeavesWatermark ==
  [][\A p \in Callers :
       ForwardStep(p) =>
         LET c == Head(todo[p])
         IN syncMetadata'[c] \in
              {syncMetadata[c]} \cup {mainDb[s].updatedAt : s \in {x \in DOMAIN mainDb : x[1] = c}}]_vars

\* the standby documents that a step created or changed
Changed(target, targetAfter) ==
  {s \in DOMAIN targetAfter : s \notin DOMAIN target \/ targetAfter[s] # target[s]}

\* C26: a turn of the forward loop adds to the count of the run at least the
\* documents it created or changed on the standby, also when the turn ends
\* with an error, and the loop's end adds that count to totalSynced.
WrittenCountMatchesCommits ==
  [][\A p \in Callers :
       /\ ForwardStep(p) =>
            acc'[p] - acc[p] >= Cardinality(Changed(backupDb, backupDb'))
       /\ (pc[p] = "sync" /\ pc'[p] = "auth") =>
            syncStats'.totalSynced = syncStats.totalSynced + acc[p]]_vars

-----------------------------------------------------------------------------
(* A forward run past its gate *)

\* C27: once the primary is seen unavailable, a forward run that passed the
\* gate reads no further collection and ends with status paused.
PrimaryLossPausesRun ==
  [][\A p \in Callers :
       /\ ForwardStep(p) => isMainDbOnline
       /\ (pc[p] \in {"sync", "auth"} /\ ~isMainDbOnline /\ pc'[p] = "idle") =>
            syncStats'.status = "paused"]_vars

\* C28: the forward loop visits every collection of this.collections in turn; a
\* turn that ends with an error adds to errors, keeps the count of the run, and
\* leaves the loop at the next collection; the loop's end adds the count of the
\* run, the documents of the other collections, to totalSynced.
FailedCollectionAbortsOnlyItself ==
  [][\A p \in Callers :
       /\ (pc[p] = "discover" /\ pc'[p] = "sync") => todo'[p] = collections'
       /\ ForwardStep(p) =>
            /\ pc'[p] = "sync"
            /\ todo'[p] = Tail(todo[p])
            /\ acc'[p] >= acc[p]
            /\ syncStats'.errors >= syncStats.errors
            /\ (faults' # faults /\ acc'[p] = acc[p]) => syncStats'.errors > syncStats.errors
       /\ (pc[p] = "sync" /\ pc'[p] = "auth") =>
            /\ todo[p] = << >>
            /\ syncStats'.totalSynced = syncStats.totalSynced + acc[p]]_vars

\* the first run is past its loop: users failed and its document is not on the
\* standby, users_recovery came after it and was written and counted
LaterCollectionCounted ==
  /\ runs = 1
  /\ pc["http"] = "auth"
  /\ syncStats.errors = 1
  /\ syncStats.totalSynced = 1
  /\ <<"users_recovery", "d1">> \in DOMAIN backupDb
  /\ \E s \in DOMAIN mainDb : s[1] = "users" /\ s \notin DOMAIN backupDb

-----------------------------------------------------------------------------
(* Calls that never answer, and overlapping health checks *)

\* C29: every run that holds the lock eventually releases it, also when a call
\* it awaits never answers.
EveryRunReleasesTheLock == isSyncing ~> ~isSyncing

\* C30: whenever a round of checkDatabaseHealth has completed and none is in
\* progress, the health status that getStats returns is the four answers of the
\* latest completed round, however the rounds before overlapped.
HealthIsOneCompletedRound ==
  (probe.last # << >> /\ \A r \in Probers : probe.at[r] = 0) =>
     getStats(syncStats, authSyncStats, isMainDbOnline, isBackupDbOnline,
              isMainAuthOnline, isBackupAuthOnline).healthStatus = probe.last

-----------------------------------------------------------------------------
(* Who changes the counters, the periodic report, the schema *)

\* C31: a step that changes a counter or a watermark is a step of a run: it
\* takes the lock, or is made by the run that holds it, or ends that run.
CountersOwnedByRun ==
  [][(Counters(syncStats') # Counters(syncStats) \/ syncMetadata' # syncMetadata) =>
       \E p \in Callers : pc'[p] # pc[p] \/ (Running(p) /\ todo'[p] # todo[p])]_vars

\* C32: once ten forward runs have completed, an integrity report has been
\* published; with no other source of reports, one of the ten published it.
ReportEveryTenRuns ==
  (Idle /\ syncStats.incrementalSyncs >= ReportEvery) => io.reported

\* C33: no step removes a key from the stored schema of a collection.
SchemaOnlyGrows ==
  [][\A c \in AllCollections : collectionsSchema[c] \subseteq collectionsSchema'[c]]_vars

\* C34 as stated: a gateway call that fails fewer than three times in a row is
\* retried and succeeds, so the step in which a call fails for the first time
\* adds nothing to errors.
FirstFailureIsRetried ==
  [][(faults = 0 /\ faults' = 1) => syncStats'.errors = syncStats.errors]_vars

\* C37 as stated: whenever no run holds the lock the published status is
\* neither syncing nor recovering.
StatusFollowsLock ==
  ~isSyncing => syncStats.status \notin {"syncing", "recovering"}

\* C38 as stated: a ForceFull that finds a run active (here the run of the cron
\* job) and is refused leaves every watermark and every run counter as it was.
RefusedForceFullChangesNothing ==
  [][(isSyncing /\ ~refused /\ refused' /\ pc["cron"] # "idle" /\ res' = Reply("force")) =>
        /\ syncMetadata' = syncMetadata
        /\ Counters(syncStats') = Counters(syncStats)]_vars

\* C39 as stated: the step of a ForceFull leaves the recover-direction
\* watermark of every collection as it was.
ForceFullKeepsRecoverWatermarks ==
  [][(\E p \in Callers : EntersFullSync(p) /\ runStart'.kind = "force") =>
        \A c \in AllCollections :
           syncMetadata'[recoveryKey(c)] = syncMetadata[recoveryKey(c)]]_vars

\* the statuses with which a forward run announces its end
EndOfRun == {"completed", "paused", "error"}

\* C36: in what a forward run has published, the notification of its start
\* (syncStats with status syncing) is first, no syncProgress of a collection
\* follows the collectionSynced of that collection, nothing about a collection
\* follows the notification of the run's end, and once the run is over that
\* notification is the last event.
EventsInCausalOrder ==
  LET log == io.run
  IN /\ log # << >> => log[1] = Event("syncStats", "syncing")
     /\ \A i, j \in DOMAIN log :
          i < j =>
            /\ ~(log[i].event = "collectionSynced"
                   /\ log[j] = Event("syncProgress", log[i].about))
            /\ ~(log[i].event = "syncStats" /\ log[i].about \in EndOfRun
                   /\ log[j].event \in {"syncProgress", "collectionSynced"})
     /\ (log # << >> /\ ~isSyncing) =>
          (log[Len(log)].event = "syncStats" /\ log[Len(log)].about \in EndOfRun)

\* C36 witness: a forward run is over that published the progress of a
\* collection, then that collection's collectionSynced, then its own end
RunPublishedProgress ==
  /\ ~isSyncing
  /\ \E i, j \in DOMAIN io.run :
        /\ i < j /\ j < Len(io.run)
        /\ io.run[i] = Event("syncProgress", "users")
        /\ io.run[j] = Event("collectionSynced", "users")
  /\ io.run[Len(io.run)] = Event("syncStats", "completed")

-----------------------------------------------------------------------------
(* Claims about the auth pass, under SpecAuth *)

\* the step in which importUsersToBackup of the pass of q returns
ImportReturns(q) == authPass[q].at = "import" /\ authPass'[q].at = "claims"

\* C35 as stated: the import of a pass adds to the auth error counter the
\* number of users of every chunk whose import failed, and counts the users
\* that a successful import rejected without failing their chunk.
FailedChunkCountsItsUsers ==
  [][\A q \in AuthCallers :
       ImportReturns(q) =>
         /\ authSyncStats'.errors - authSyncStats.errors
               \in {authPass'[q].thrown, authPass'[q].thrown + authPass'[q].failureCount}
         /\ authPass'[q].failureCount > 0 =>
               authSyncStats'.errors - authSyncStats.errors >= authPass'[q].failureCount]_vars

\* what a pass computed: users.length, syncedCount, claimsSynced
Computed(q) == <<Len(authPass[q].users), authPass[q].syncedCount, authPass[q].claimsSynced>>

\* C40 as stated: once two overlapping passes have both returned, the published
\* totalUsers, syncedUsers and customClaims are the three values that one of
\* the passes computed, and syncedUsers is at most totalUsers.
AuthCountersFromOnePass ==
  (\A q \in AuthCallers : authPass[q].at = "done" /\ ~authPass[q].threw) =>
     /\ \E q \in AuthCallers :
          <<authSyncStats.totalUsers, authSyncStats.syncedUsers, authSyncStats.customClaims>>
            = Computed(q)
     /\ authSyncStats.syncedUsers <= authSyncStats.totalUsers
====
